---- MODULE Spec2Model ----
(***************************************************************************)
(* Model of repo-summarizer: the process-wide result cache and the request *)
(* pipeline of SummarizerService.summarize (services/summarizer.py, with   *)
(* the error mapping of routers/summarize.py), the download budgeter       *)
(* GitHubClient.download_files (clients/github_client.py), the context     *)
(* builder build_context (utils/context_builder.py), and the filtering and *)
(* scoring of the tree listing by GitHubClient.fetch_repo_files with       *)
(* is_excluded and score_file (utils/file_filter.py).                      *)
(*                                                                         *)
(* Strings are modelled by their lengths wherever the code only measures   *)
(* or slices them; a slice content[:k] is identified by its length.  Paths *)
(* are strings, split, searched and lower-cased character by character.    *)
(***************************************************************************)
EXTENDS Integers, Sequences, FiniteSets, TLC

VARIABLES
  \* services/summarizer.py module globals and the configured capacity
  cache, cache_order, cache_max_size,
  \* one coroutine per request: position, arguments, response, history
  pc, key, ret, hit, stages, storeLog,
  \* one call of build_context: arguments, loop position, locals
  ctx_files, ctx_budget, ctx_pfm, ctx_pc, ctx_i, ctx_used, ctx_sections,
  \* one call of download_files: arguments, the remote repository, loop
  \* position, locals, history
  dl_n, dl_budget, dl_pfm, dl_remote, dl_pc, dl_i, dl_contents, dl_z, dl_used,
  dl_result, dl_batches, dl_fetches, dl_reordered,
  \* one call of fetch_repo_files: the tree listing received, loop position,
  \* the list files
  fr_tree, fr_pc, fr_i, fr_files

cacheVars == <<cache, cache_order, cache_max_size>>
reqVars == <<pc, key, ret, hit, stages, storeLog>>
ctxVars == <<ctx_files, ctx_budget, ctx_pfm, ctx_pc, ctx_i, ctx_used, ctx_sections>>
dlVars == <<dl_n, dl_budget, dl_pfm, dl_remote, dl_pc, dl_i, dl_contents, dl_z, dl_used,
           dl_result, dl_batches, dl_fetches, dl_reordered>>
frVars == <<fr_tree, fr_pc, fr_i, fr_files>>
vars == <<cacheVars, reqVars, ctxVars, dlVars, frVars>>

(***************************************************************************)
(* Bounds and input sets                                                   *)
(***************************************************************************)
NumReq == 3
MaxCap == 2

Requests == 1..NumReq
Keys == {"a/x", "b/y", "c/z"}
Vals == {"v1", "v2"}
None == "None"

Min(a, b) == IF a <= b THEN a ELSE b
Max(a, b) == IF a >= b THEN a ELSE b

(***************************************************************************)
(* The cache: _cache (a dict) and _cache_order (a list of keys)            *)
(***************************************************************************)
EmptyCache == [x \in {} |-> None]

cache_get(c, k) == IF k \in DOMAIN c THEN c[k] ELSE None

DictPop(c, k) == [x \in (DOMAIN c) \ {k} |-> c[x]]

DictSet(c, k, v) == [x \in (DOMAIN c) \cup {k} |-> IF x = k THEN v ELSE c[x]]

\* Faulty variant: no insert-if-absent guard, the stored value is overwritten and the
\* key is appended again.
cache_set_overwrite(c, o, k, v, max) ==
  LET full == Cardinality(DOMAIN c) >= max /\ k \notin DOMAIN c
      c1 == IF full /\ o # <<>> THEN DictPop(c, Head(o)) ELSE c
      o1 == IF full /\ o # <<>> THEN Tail(o) ELSE o
  IN  [cache |-> DictSet(c1, k, v), order |-> Append(o1, k), raised |-> FALSE]

\* Faulty variant: the eviction test is len(_cache) > max_size.
cache_set_late_evict(c, o, k, v, max) ==
  IF k \in DOMAIN c
  THEN [cache |-> c, order |-> o, raised |-> FALSE]
  ELSE LET full == Cardinality(DOMAIN c) > max
           c1 == IF full /\ o # <<>> THEN DictPop(c, Head(o)) ELSE c
           o1 == IF full /\ o # <<>> THEN Tail(o) ELSE o
       IN  [cache |-> DictSet(c1, k, v), order |-> Append(o1, k), raised |-> FALSE]

\* Faulty variant: the newest key is evicted (pop() instead of pop(0)).
cache_set_evict_newest(c, o, k, v, max) ==
  IF k \in DOMAIN c
  THEN [cache |-> c, order |-> o, raised |-> FALSE]
  ELSE LET full == Cardinality(DOMAIN c) >= max
           c1 == IF full /\ o # <<>> THEN DictPop(c, o[Len(o)]) ELSE c
           o1 == IF full /\ o # <<>> THEN SubSeq(o, 1, Len(o) - 1) ELSE o
       IN  [cache |-> DictSet(c1, k, v), order |-> Append(o1, k), raised |-> FALSE]

\* Faulty variant: eviction removes the oldest key from the dict only, not from the
\* list.
cache_set_stale_order(c, o, k, v, max) ==
  IF k \in DOMAIN c
  THEN [cache |-> c, order |-> o, raised |-> FALSE]
  ELSE LET full == Cardinality(DOMAIN c) >= max
           c1 == IF full /\ o # <<>> /\ Head(o) \in DOMAIN c THEN DictPop(c, Head(o)) ELSE c
       IN  [cache |-> DictSet(c1, k, v), order |-> Append(o, k), raised |-> FALSE]

\* _cache_set(key, value, max_size) on the globals (c, o).  raised: IndexError
\* of _cache_order.pop(0) on an empty list, which leaves both unchanged.
cache_set(c, o, k, v, max) ==
  IF k \in DOMAIN c
  THEN [cache |-> c, order |-> o, raised |-> FALSE]
  ELSE IF Cardinality(DOMAIN c) >= max
       THEN IF o = <<>>
            THEN [cache |-> c, order |-> o, raised |-> TRUE]
            ELSE LET oldest == Head(o)
                     c1 == IF oldest \in DOMAIN c THEN DictPop(c, oldest) ELSE c
                 IN  [cache |-> DictSet(c1, k, v),
                      order |-> Append(Tail(o), k), raised |-> FALSE]
       ELSE [cache |-> DictSet(c, k, v), order |-> Append(o, k), raised |-> FALSE]

(***************************************************************************)
(* The request pipeline: SummarizerService.summarize under the handler     *)
(* summarize_repo.  A coroutine runs without interruption between awaits,  *)
(* so each action is the code from one await's return to the next await:   *)
(* the cache check runs with the call, build_context with the return of    *)
(* download_files, and _cache_set with the return of the LLM call.         *)
(* stages[r] lists the pipeline stages request r has entered; storeLog lists *)
(* the calls of _cache_set in the order they ran.                          *)
(***************************************************************************)
TreeFailures == {404, 403, 500, 0}   \* HTTP status of the tree listing; 0: transport exception
LLMFailures == {"http_error", "bad_json", "bad_shape", "transport"}

\* a response is [status, val, detail]: the HTTP status, the body of a 200
\* response and the detail of an error response
NoReturn == [status |-> 0, val |-> None, detail |-> None]

GitHubClientError(message, code) ==
  [type |-> "GitHubClientError", message |-> message, status_code |-> code]
LLMClientError(message) ==
  [type |-> "LLMClientError", message |-> message, status_code |-> 0]
OtherException == [type |-> "Exception", message |-> "other", status_code |-> 0]

\* fetch_repo_files: the exception raised for a non-200 tree listing
TreeException(st) ==
  IF st = 0 THEN OtherException
  ELSE IF st = 404 THEN GitHubClientError("Repository not found or is private", st)
  ELSE IF st = 403 THEN GitHubClientError("GitHub API rate limit exceeded", st)
  ELSE GitHubClientError("GitHub API error", st)

\* LLMClient.summarize and the construction of SummarizeResponse: a non-200
\* status and unparseable JSON raise LLMClientError; a transport failure or
\* JSON of the wrong shape raises some other exception
LLMException(kind) ==
  IF kind = "http_error" THEN LLMClientError("LLM API returned a non-200 status")
  ELSE IF kind = "bad_json" THEN LLMClientError("LLM returned invalid JSON")
  ELSE OtherException

\* Faulty variant: every client error is reported as an upstream error.
HandlerStatusAllUpstream(exc) ==
  IF exc.type \in {"GitHubClientError", "LLMClientError"} THEN 502 ELSE 500

\* summarize_repo: the detail of the error response
HandlerDetail(exc) ==
  IF exc.type = "GitHubClientError" THEN exc.message
  ELSE IF exc.type = "LLMClientError" THEN "LLM service error: " \o exc.message
  ELSE "Internal server error"

\* summarize_repo: the HTTP status each exception is mapped to
HandlerStatus(exc) ==
  IF exc.type = "GitHubClientError"
  THEN LET status == IF exc.status_code = 0 THEN 502 ELSE exc.status_code
       IN  IF status = 404 THEN 404 ELSE IF status = 403 THEN 429 ELSE 502
  ELSE IF exc.type = "LLMClientError" THEN 502 ELSE 500

\* the exception leaves summarize (its locals are gone) and the handler maps it
Fail(r, exc) ==
  /\ pc' = [pc EXCEPT ![r] = "error"]
  /\ ret' = [ret EXCEPT ![r] = [status |-> HandlerStatus(exc), val |-> None,
                                   detail |-> HandlerDetail(exc)]]
  /\ key' = [key EXCEPT ![r] = None]

\* Faulty variant: the cached value is never used.
CacheHitNever(k) == FALSE

\* summarize: "cached = _cache_get(cache_key); if cached is not None"
CacheHit(k) == cache_get(cache, k) # None

\* summarize is called for key k: the cache check, and on a miss the start of
\* the tree fetch
CacheCheck(r, k) ==
  /\ pc[r] = "idle"
  /\ key' = [key EXCEPT ![r] = k]
  /\ IF CacheHit(k)
     THEN /\ pc' = [pc EXCEPT ![r] = "done"]
          /\ ret' = [ret EXCEPT ![r] = [status |-> 200, val |-> cache_get(cache, k),
                                              detail |-> None]]
          /\ hit' = [hit EXCEPT ![r] = TRUE]
          /\ stages' = [stages EXCEPT ![r] = <<"CacheCheck">>]
     ELSE /\ pc' = [pc EXCEPT ![r] = "TreeFetch"]
          /\ stages' = [stages EXCEPT ![r] = <<"CacheCheck", "TreeFetch">>]
          /\ UNCHANGED <<ret, hit>>
  /\ UNCHANGED <<cacheVars, storeLog>>
  /\ UNCHANGED <<ctxVars, dlVars, frVars>>

\* fetch_repo_files returns the candidates; download_files starts
TreeFetchOk(r) ==
  /\ pc[r] = "TreeFetch"
  /\ pc' = [pc EXCEPT ![r] = "Download"]
  /\ stages' = [stages EXCEPT ![r] = Append(@, "Download")]
  /\ UNCHANGED <<cacheVars, key, ret, hit, storeLog>>
  /\ UNCHANGED <<ctxVars, dlVars, frVars>>

\* fetch_repo_files raises
TreeFetchFail(r, st) ==
  /\ pc[r] = "TreeFetch"
  /\ Fail(r, TreeException(st))
  /\ UNCHANGED <<cacheVars, hit, stages, storeLog>>
  /\ UNCHANGED <<ctxVars, dlVars, frVars>>

\* download_files returns; build_context runs; the LLM call starts
DownloadReturn(r) ==
  /\ pc[r] = "Download"
  /\ pc' = [pc EXCEPT ![r] = "Summarize"]
  /\ stages' = [stages EXCEPT ![r] = @ \o <<"Assemble", "Summarize">>]
  /\ UNCHANGED <<cacheVars, key, ret, hit, storeLog>>
  /\ UNCHANGED <<ctxVars, dlVars, frVars>>

\* the LLM call returns JSON from which the response v is built; _cache_set
SummarizeOk(r, v) ==
  /\ pc[r] = "Summarize"
  /\ LET s == cache_set(cache, cache_order, key[r], v, cache_max_size)
     IN  IF s.raised
         THEN /\ Fail(r, OtherException)
              /\ UNCHANGED <<cache, cache_order, storeLog>>
         ELSE /\ UNCHANGED key
              /\ cache' = s.cache
              /\ cache_order' = s.order
              /\ pc' = [pc EXCEPT ![r] = "done"]
              /\ ret' = [ret EXCEPT ![r] = [status |-> 200, val |-> v, detail |-> None]]
              /\ storeLog' = Append(storeLog,
                   [req |-> r, key |-> key[r], val |-> v,
                    present |-> key[r] \in DOMAIN cache,
                    full |-> Cardinality(DOMAIN cache) >= cache_max_size,
                    evicted |-> IF DOMAIN cache \subseteq DOMAIN s.cache THEN None
                                ELSE CHOOSE x \in DOMAIN cache : x \notin DOMAIN s.cache,
                    changed |-> s.cache # cache \/ s.order # cache_order])
  /\ stages' = [stages EXCEPT ![r] = Append(@, "CacheStore")]
  /\ UNCHANGED <<cache_max_size, hit>>
  /\ UNCHANGED <<ctxVars, dlVars, frVars>>

\* Faulty variant: a failed LLM call still stores a response (an empty summary) before
\* the exception propagates.
SummarizeFailStores(r, kind) ==
  /\ pc[r] = "Summarize"
  /\ Fail(r, LLMException(kind))
  /\ LET s == cache_set(cache, cache_order, key[r], "v1", cache_max_size)
     IN  cache' = s.cache /\ cache_order' = s.order
  /\ UNCHANGED <<cache_max_size, hit, stages, storeLog>>
  /\ UNCHANGED <<ctxVars, dlVars, frVars>>

\* the LLM call, the parse of its output or the response construction raises
SummarizeFail(r, kind) ==
  /\ pc[r] = "Summarize"
  /\ Fail(r, LLMException(kind))
  /\ UNCHANGED <<cacheVars, hit, stages, storeLog>>
  /\ UNCHANGED <<ctxVars, dlVars, frVars>>

(***************************************************************************)
(* build_context (utils/context_builder.py).  A file is [path, content]:   *)
(* the length of its path and the length of its content, NoContent for     *)
(* content None.  A section is [file, kind, body, len]: the index of its   *)
(* file in the input, "full" or "partial", the number of leading           *)
(* characters of the (capped) content it holds, and its length.            *)
(***************************************************************************)
NoContent == -1

HeaderPrefixLen == 4     \* "### "
HeaderSuffixLen == 1     \* "\n"
FenceOpenLen == 4        \* "```\n"
FenceCloseLen == 5       \* "\n```\n"
MarkerLen == 16          \* "\n... [truncated]"
PartialTailLen == 21     \* "\n... [truncated]\n```\n"
MinPartial == 50
PartialReserve == 20

\* len(s[:k]) for a string of length n
SliceLen(n, k) == IF k >= 0 THEN Min(n, k) ELSE Max(n + k, 0)

\* len(header) for header = f"### {f.path}\n"
HeaderLen(f) == HeaderPrefixLen + f.path + HeaderSuffixLen

\* len(content) after the per-file cap
CappedLen(f, per_file_max) ==
  IF f.content > per_file_max
  THEN SliceLen(f.content, per_file_max) + MarkerLen
  ELSE f.content

\* len(section) for section = header + "```\n" + content + "\n```\n"
SectionLen(f, per_file_max) ==
  HeaderLen(f) + FenceOpenLen + CappedLen(f, per_file_max) + FenceCloseLen

\* Faulty variant: nothing is reserved for the fence and the marker.
AvailableNoReserve(remaining, f) == remaining - HeaderLen(f)

\* available = remaining - len(header) - 20
Available(remaining, f) == remaining - HeaderLen(f) - PartialReserve

\* the partial section: header + "```\n" + content[:available] + "\n... [truncated]\n```\n"
PartialSection(i, f, per_file_max, remaining) ==
  LET body == SliceLen(CappedLen(f, per_file_max), Available(remaining, f))
  IN  [file |-> i, kind |-> "partial", body |-> body,
       len |-> HeaderLen(f) + FenceOpenLen + body + PartialTailLen]

FullSection(i, f, per_file_max) ==
  [file |-> i, kind |-> "full", body |-> CappedLen(f, per_file_max),
   len |-> SectionLen(f, per_file_max)]

\* Faulty variant: a section that fills the budget exactly does not fit.
OverflowsAtEqual(used, f, budget, per_file_max) ==
  used + SectionLen(f, per_file_max) >= budget

\* "if used + section_len > budget"
Overflows(used, f, budget, per_file_max) == used + SectionLen(f, per_file_max) > budget

\* "if remaining > len(header) + 50"
FitsPartial(remaining, f) == remaining > HeaderLen(f) + MinPartial

CtxFile == ctx_files[ctx_i]

\* "if f.content is None: continue"
CtxSkip ==
  /\ ctx_pc = "loop" /\ ctx_i <= Len(ctx_files)
  /\ CtxFile.content = NoContent
  /\ ctx_i' = ctx_i + 1
  /\ UNCHANGED <<ctx_files, ctx_budget, ctx_pfm, ctx_pc, ctx_used, ctx_sections>>
  /\ UNCHANGED <<cacheVars, reqVars, dlVars, frVars>>

\* the section fits: it is appended and counted
CtxFull ==
  /\ ctx_pc = "loop" /\ ctx_i <= Len(ctx_files)
  /\ CtxFile.content # NoContent
  /\ ~Overflows(ctx_used, CtxFile, ctx_budget, ctx_pfm)
  /\ ctx_sections' = Append(ctx_sections, FullSection(ctx_i, CtxFile, ctx_pfm))
  /\ ctx_used' = ctx_used + SectionLen(CtxFile, ctx_pfm)
  /\ ctx_i' = ctx_i + 1
  /\ UNCHANGED <<ctx_files, ctx_budget, ctx_pfm, ctx_pc>>
  /\ UNCHANGED <<cacheVars, reqVars, dlVars, frVars>>

\* the section does not fit, a partial section is appended, and the loop is left
CtxPartial ==
  /\ ctx_pc = "loop" /\ ctx_i <= Len(ctx_files)
  /\ CtxFile.content # NoContent
  /\ Overflows(ctx_used, CtxFile, ctx_budget, ctx_pfm)
  /\ FitsPartial(ctx_budget - ctx_used, CtxFile)
  /\ ctx_sections' =
       Append(ctx_sections, PartialSection(ctx_i, CtxFile, ctx_pfm, ctx_budget - ctx_used))
  /\ ctx_pc' = "done"
  /\ UNCHANGED <<ctx_files, ctx_budget, ctx_pfm, ctx_i, ctx_used>>
  /\ UNCHANGED <<cacheVars, reqVars, dlVars, frVars>>

\* Faulty variant: a file that does not fit is passed over and the loop goes on.
CtxStopSkipsFile ==
  /\ ctx_pc = "loop" /\ ctx_i <= Len(ctx_files)
  /\ CtxFile.content # NoContent
  /\ Overflows(ctx_used, CtxFile, ctx_budget, ctx_pfm)
  /\ ~FitsPartial(ctx_budget - ctx_used, CtxFile)
  /\ ctx_i' = ctx_i + 1
  /\ UNCHANGED <<ctx_files, ctx_budget, ctx_pfm, ctx_pc, ctx_used, ctx_sections>>
  /\ UNCHANGED <<cacheVars, reqVars, dlVars, frVars>>

\* the section does not fit and neither does a partial one: the loop is left
CtxStop ==
  /\ ctx_pc = "loop" /\ ctx_i <= Len(ctx_files)
  /\ CtxFile.content # NoContent
  /\ Overflows(ctx_used, CtxFile, ctx_budget, ctx_pfm)
  /\ ~FitsPartial(ctx_budget - ctx_used, CtxFile)
  /\ ctx_pc' = "done"
  /\ UNCHANGED <<ctx_files, ctx_budget, ctx_pfm, ctx_i, ctx_used, ctx_sections>>
  /\ UNCHANGED <<cacheVars, reqVars, dlVars, frVars>>

\* the input is exhausted
CtxEnd ==
  /\ ctx_pc = "loop" /\ ctx_i > Len(ctx_files)
  /\ ctx_pc' = "done"
  /\ UNCHANGED <<ctx_files, ctx_budget, ctx_pfm, ctx_i, ctx_used, ctx_sections>>
  /\ UNCHANGED <<cacheVars, reqVars, dlVars, frVars>>

\* build_context is not running
CtxIdle ==
  /\ ctx_files = <<>>
  /\ ctx_budget = 0
  /\ ctx_pfm = 0
  /\ ctx_pc = "idle"
  /\ ctx_i = 0
  /\ ctx_used = 0
  /\ ctx_sections = <<>>

\* inputs of build_context
MaxCtxFiles == 3
CtxPaths == {1, 9}
CtxContents == {NoContent, 0, 40, 100, 200}
CtxBudgets == {0, 55, 110, 130, 250}
CtxPerFileMax == {60, 150}
CtxFileChoices == [path : CtxPaths, content : CtxContents]

SeqsUpTo(S, n) == UNION {[1..m -> S] : m \in 0..n}

(***************************************************************************)
(* GitHubClient.download_files (clients/github_client.py).  The input is   *)
(* the score-sorted candidate list, a file being its index 1..dl_n in it.  *)
(* dl_remote[f] is what _fetch_raw produces for file f: the length of the  *)
(* text, NoneResult (a non-200 status or a decode failure) or ExcResult    *)
(* (the fetch raised).  The fetches of a batch complete in any order;      *)
(* dl_contents is the list asyncio.gather builds, Pending where a fetch    *)
(* has not completed.  A result entry is [file, content].                  *)
(* History: dl_batches (start index and used of each batch started),       *)
(* dl_fetches (fetches issued per file), dl_reordered (some fetch          *)
(* completed before a fetch earlier in its batch).                         *)
(***************************************************************************)
BatchSize == 10
NoneResult == -1
ExcResult == -2
Pending == -3

\* batch = files[i : i + batch_size], as indices into the input
Batch(i, n) == [j \in 1..(Min(i + BatchSize, n) - i) |-> i + j]

\* Faulty variant: results are collected in the order the fetches complete.
GatherInCompletionOrder(contents, j, res) ==
  LET first == CHOOSE m \in 1..Len(contents) :
                 contents[m] = Pending /\ \A q \in 1..(m - 1) : contents[q] # Pending
  IN  [contents EXCEPT ![first] = res]

\* asyncio.gather with return_exceptions=True: the result (or exception)
\* of the j-th task is the j-th element of the list
Gather(contents, j, res) == [contents EXCEPT ![j] = res]

\* Faulty variant: the raw fetched length is counted.
CountedRaw(len, per_file_max) == len

\* "used += min(len(content), per_file_max)"
Counted(len, per_file_max) == Min(len, per_file_max)

\* Faulty variant: no break inside the batch.
BudgetReachedNever(used, budget) == FALSE

\* "if used >= budget: break" after an append
BudgetReached(used, budget) == used >= budget

\* the loop over the batches has run out of files
DlLoopEnd ==
  /\ dl_pc = "loop" /\ dl_i >= dl_n
  /\ dl_pc' = "done"
  /\ UNCHANGED <<dl_n, dl_budget, dl_pfm, dl_remote, dl_i, dl_contents, dl_z, dl_used,
                 dl_result, dl_batches, dl_fetches, dl_reordered>>
  /\ UNCHANGED <<cacheVars, reqVars, ctxVars, frVars>>

\* "if used >= budget: break" at the head of the loop over the batches
DlBudgetBreak ==
  /\ dl_pc = "loop" /\ dl_i < dl_n
  /\ dl_used >= dl_budget
  /\ dl_pc' = "done"
  /\ UNCHANGED <<dl_n, dl_budget, dl_pfm, dl_remote, dl_i, dl_contents, dl_z, dl_used,
                 dl_result, dl_batches, dl_fetches, dl_reordered>>
  /\ UNCHANGED <<cacheVars, reqVars, ctxVars, frVars>>

\* a batch starts: one fetch per file of the batch is issued and awaited
DlStartBatch ==
  /\ dl_pc = "loop" /\ dl_i < dl_n
  /\ ~(dl_used >= dl_budget)
  /\ dl_pc' = "gather"
  /\ dl_contents' = [j \in DOMAIN Batch(dl_i, dl_n) |-> Pending]
  /\ dl_batches' = Append(dl_batches, [start |-> dl_i, used |-> dl_used])
  /\ dl_fetches' = [f \in 1..dl_n |->
                      IF \E j \in DOMAIN Batch(dl_i, dl_n) : Batch(dl_i, dl_n)[j] = f
                      THEN dl_fetches[f] + 1 ELSE dl_fetches[f]]
  /\ UNCHANGED <<dl_n, dl_budget, dl_pfm, dl_remote, dl_i, dl_z, dl_used, dl_result,
                 dl_reordered>>
  /\ UNCHANGED <<cacheVars, reqVars, ctxVars, frVars>>

\* the fetch of the j-th file of the batch completes
DlFetchComplete(j) ==
  /\ dl_pc = "gather"
  /\ j \in DOMAIN dl_contents
  /\ dl_contents[j] = Pending
  /\ dl_contents' = Gather(dl_contents, j, dl_remote[Batch(dl_i, dl_n)[j]])
  /\ dl_reordered' = (dl_reordered \/ \E q \in 1..(j - 1) : dl_contents[q] = Pending)
  /\ UNCHANGED <<dl_n, dl_budget, dl_pfm, dl_remote, dl_pc, dl_i, dl_z, dl_used,
                 dl_result, dl_batches, dl_fetches>>
  /\ UNCHANGED <<cacheVars, reqVars, ctxVars, frVars>>

\* every fetch of the batch has completed: gather returns
DlGatherReturn ==
  /\ dl_pc = "gather"
  /\ \A j \in DOMAIN dl_contents : dl_contents[j] # Pending
  /\ dl_pc' = "zip"
  /\ dl_z' = 1
  /\ UNCHANGED <<dl_n, dl_budget, dl_pfm, dl_remote, dl_i, dl_contents, dl_used,
                 dl_result, dl_batches, dl_fetches, dl_reordered>>
  /\ UNCHANGED <<cacheVars, reqVars, ctxVars, frVars>>

\* Faulty variant: a failed fetch ends the processing of its batch.
DlZipSkipAborts ==
  /\ dl_pc = "zip" /\ dl_z <= Len(dl_contents)
  /\ dl_contents[dl_z] \in {ExcResult, NoneResult}
  /\ dl_pc' = "loop"
  /\ dl_i' = dl_i + BatchSize
  /\ UNCHANGED <<dl_n, dl_budget, dl_pfm, dl_remote, dl_contents, dl_z, dl_used,
                 dl_result, dl_batches, dl_fetches, dl_reordered>>
  /\ UNCHANGED <<cacheVars, reqVars, ctxVars, frVars>>

\* "for f, content in zip(batch, contents)": an exception or None is skipped
DlZipSkip ==
  /\ dl_pc = "zip" /\ dl_z <= Len(dl_contents)
  /\ dl_contents[dl_z] \in {ExcResult, NoneResult}
  /\ dl_z' = dl_z + 1
  /\ UNCHANGED <<dl_n, dl_budget, dl_pfm, dl_remote, dl_pc, dl_i, dl_contents, dl_used,
                 dl_result, dl_batches, dl_fetches, dl_reordered>>
  /\ UNCHANGED <<cacheVars, reqVars, ctxVars, frVars>>

\* a fetched text is appended and counted; the batch is left once the budget
\* is reached
DlZipAppend ==
  /\ dl_pc = "zip" /\ dl_z <= Len(dl_contents)
  /\ dl_contents[dl_z] \notin {ExcResult, NoneResult}
  /\ dl_result' = Append(dl_result,
                         [file |-> Batch(dl_i, dl_n)[dl_z], content |-> dl_contents[dl_z]])
  /\ dl_used' = dl_used + Counted(dl_contents[dl_z], dl_pfm)
  /\ IF BudgetReached(dl_used', dl_budget)
     THEN /\ dl_pc' = "loop"
          /\ dl_i' = dl_i + BatchSize
          /\ dl_z' = dl_z
     ELSE /\ dl_z' = dl_z + 1
          /\ UNCHANGED <<dl_pc, dl_i>>
  /\ UNCHANGED <<dl_n, dl_budget, dl_pfm, dl_remote, dl_contents, dl_batches, dl_fetches,
                 dl_reordered>>
  /\ UNCHANGED <<cacheVars, reqVars, ctxVars, frVars>>

\* the batch is exhausted: on to the next batch
DlZipEnd ==
  /\ dl_pc = "zip" /\ dl_z > Len(dl_contents)
  /\ dl_pc' = "loop"
  /\ dl_i' = dl_i + BatchSize
  /\ UNCHANGED <<dl_n, dl_budget, dl_pfm, dl_remote, dl_contents, dl_z, dl_used,
                 dl_result, dl_batches, dl_fetches, dl_reordered>>
  /\ UNCHANGED <<cacheVars, reqVars, ctxVars, frVars>>

\* download_files is not running
DlIdle ==
  /\ dl_n = 0
  /\ dl_budget = 0
  /\ dl_pfm = 0
  /\ dl_remote = <<>>
  /\ dl_pc = "idle"
  /\ dl_i = 0
  /\ dl_contents = <<>>
  /\ dl_z = 0
  /\ dl_used = 0
  /\ dl_result = <<>>
  /\ dl_batches = <<>>
  /\ dl_fetches = <<>>
  /\ dl_reordered = FALSE

\* inputs of download_files: the remote content is 30 characters for every
\* file except those at the positions of DlVaryAt, which have any outcome
MaxFiles == 11
DlSizes == {0, 3, MaxFiles}
DlBudgets == {40, 300}
DlPerFileMax == {50}
DlOutcomes == {30, 80, NoneResult, ExcResult}
DlVaryAt == {1, 2, 11}
DlRemotes(n) ==
  {[f \in 1..n |-> IF f \in DlVaryAt THEN c[f] ELSE 30] :
     c \in [DlVaryAt -> DlOutcomes]}

(***************************************************************************)
(* Filtering and scoring (utils/file_filter.py) and the part of            *)
(* GitHubClient.fetch_repo_files that follows a 200 response.  A tree      *)
(* entry is [path, type, size]; an element of files is [path, size,        *)
(* score].  Scores are whole numbers (the code's floats have no            *)
(* fractional part).                                                       *)
(***************************************************************************)
CharAt(s, i) == SubSeq(s, i, i)

\* the position of the last occurrence of the character c in s, 0 if none
LastIndexOf(s, c) ==
  LET I == {i \in 1..Len(s) : CharAt(s, i) = c}
  IN  IF I = {} THEN 0 ELSE CHOOSE i \in I : \A j \in I : j <= i

\* the position of the first occurrence of the character c in s, 0 if none
FirstIndexOf(s, c) ==
  LET I == {i \in 1..Len(s) : CharAt(s, i) = c}
  IN  IF I = {} THEN 0 ELSE CHOOSE i \in I : \A j \in I : i <= j

\* s.split(sep) for a one-character separator
RECURSIVE Split(_, _)
Split(s, sep) ==
  LET i == FirstIndexOf(s, sep)
  IN  IF i = 0 THEN <<s>>
      ELSE <<SubSeq(s, 1, i - 1)>> \o Split(SubSeq(s, i + 1, Len(s)), sep)

\* s.count(c) for a one-character c
Count(s, c) == Cardinality({i \in 1..Len(s) : CharAt(s, i) = c})

\* "sub in s"
Contains(s, sub) ==
  \E i \in 1..(Len(s) - Len(sub) + 1) : SubSeq(s, i, i + Len(sub) - 1) = sub

UpperChars == "ABCDEFGHIJKLMNOPQRSTUVWXYZ"
LowerChars == "abcdefghijklmnopqrstuvwxyz"
DigitChars == "0123456789"

LowerChar(c) ==
  LET i == FirstIndexOf(UpperChars, c)
  IN  IF i = 0 THEN c ELSE CharAt(LowerChars, i)

\* s.lower()
RECURSIVE Lower(_)
Lower(s) == IF Len(s) = 0 THEN "" ELSE LowerChar(Head(s)) \o Lower(Tail(s))

\* the regular expression \w+ matches the whole of s
IsWord(s) ==
  /\ Len(s) > 0
  /\ \A i \in 1..Len(s) :
       Contains(UpperChars \o LowerChars \o DigitChars \o "_", CharAt(s, i))

\* os.path.splitext(name)[1] for a name without "/": the text from the last
\* dot on, or "" when there is no dot or only dots come before it
SplitExt(name) ==
  LET dot == LastIndexOf(name, ".")
  IN  IF dot > 0 /\ \E i \in 1..(dot - 1) : CharAt(name, i) # "."
      THEN SubSeq(name, dot, Len(name))
      ELSE ""

EXCLUDED_DIRS ==
  {"node_modules", "dist", "build", ".git", "__pycache__", ".tox",
   ".mypy_cache", ".pytest_cache", "vendor", "venv", ".venv", "env",
   ".env", "eggs", ".eggs", "bower_components", ".next", ".nuxt",
   "coverage", ".coverage", "htmlcov", "site-packages"}

EXCLUDED_EXTENSIONS ==
  {".png", ".jpg", ".jpeg", ".gif", ".bmp", ".ico", ".svg", ".webp",
   ".mp3", ".mp4", ".wav", ".avi", ".mov", ".mkv",
   ".zip", ".tar", ".gz", ".bz2", ".7z", ".rar",
   ".exe", ".dll", ".so", ".dylib", ".o", ".a",
   ".woff", ".woff2", ".ttf", ".eot", ".otf",
   ".pdf", ".doc", ".docx", ".xls", ".xlsx",
   ".pyc", ".pyo", ".class", ".jar",
   ".lock", ".min.js", ".min.css", ".map",
   ".DS_Store"}

EXCLUDED_FILENAMES ==
  {"package-lock.json", "yarn.lock", "pnpm-lock.yaml", "Pipfile.lock",
   "poetry.lock", "composer.lock", "Gemfile.lock", "Cargo.lock",
   ".gitignore", ".gitattributes", ".editorconfig"}

MAX_FILE_SIZE == 512000

\* Faulty variant: the size is not looked at.
TooLargeNever(size) == FALSE

\* "if size > MAX_FILE_SIZE"
TooLarge(size) == size > MAX_FILE_SIZE

\* is_excluded(path, size)
is_excluded(path, size) ==
  LET parts == Split(path, "/")
      filename == parts[Len(parts)]
      ext == SplitExt(filename)
  IN  \/ \E k \in 1..(Len(parts) - 1) : parts[k] \in EXCLUDED_DIRS
      \/ filename \in EXCLUDED_FILENAMES
      \/ Lower(ext) \in EXCLUDED_EXTENSIONS
      \/ TooLarge(size)

\* _README_RE.match(filename): ^readme(\.\w+)?$, ignoring case
README_RE(filename) ==
  \/ Lower(filename) = "readme"
  \/ /\ Len(filename) > 7
     /\ Lower(SubSeq(filename, 1, 7)) = "readme."
     /\ IsWord(SubSeq(filename, 8, Len(filename)))

MANIFEST_NAMES ==
  {"pyproject.toml", "setup.py", "setup.cfg",
   "package.json", "requirements.txt",
   "Cargo.toml", "go.mod", "Gemfile",
   "pom.xml", "build.gradle", "Makefile", "CMakeLists.txt",
   "Dockerfile", "docker-compose.yml", "docker-compose.yaml"}

ENTRY_NAMES ==
  {"main.py", "app.py", "index.js", "index.ts", "server.py",
   "manage.py", "cli.py", "run.py", "__main__.py"}

TEST_INDICATORS == {"test_", "_test.", "spec.", ".test.", ".spec.", "tests/", "test/"}

\* Faulty variant: the test tier is tried before the near-root tier.
score_file_tests_first(path) ==
  LET parts == Split(path, "/")
      filename == parts[Len(parts)]
      depth == Count(path, "/")
  IN  IF depth = 0 /\ README_RE(filename) THEN 0
      ELSE IF filename \in MANIFEST_NAMES THEN 10 + depth
      ELSE IF README_RE(filename) THEN 20 + depth
      ELSE IF filename \in ENTRY_NAMES THEN 30 + depth
      ELSE IF \E ind \in TEST_INDICATORS : Contains(Lower(path), ind) THEN 80 + depth
      ELSE IF depth <= 1 THEN 40
      ELSE 60 + depth

\* score_file(path)
score_file(path) ==
  LET parts == Split(path, "/")
      filename == parts[Len(parts)]
      depth == Count(path, "/")
  IN  IF depth = 0 /\ README_RE(filename) THEN 0
      ELSE IF filename \in MANIFEST_NAMES THEN 10 + depth
      ELSE IF README_RE(filename) THEN 20 + depth
      ELSE IF filename \in ENTRY_NAMES THEN 30 + depth
      ELSE IF depth <= 1 THEN 40
      ELSE IF \E ind \in TEST_INDICATORS : Contains(Lower(path), ind) THEN 80 + depth
      ELSE 60 + depth

\* Faulty variant: an element is placed before the elements of equal score.
RECURSIVE InsertBeforeEqual(_, _)
InsertBeforeEqual(sorted, x) ==
  IF sorted = <<>> THEN <<x>>
  ELSE IF x.score <= sorted[1].score THEN <<x>> \o sorted
  ELSE <<sorted[1]>> \o InsertBeforeEqual(Tail(sorted), x)

\* list.sort is stable: an element goes after the elements of equal key
RECURSIVE InsertByScore(_, _)
InsertByScore(sorted, x) ==
  IF sorted = <<>> THEN <<x>>
  ELSE IF x.score < sorted[1].score THEN <<x>> \o sorted
  ELSE <<sorted[1]>> \o InsertByScore(Tail(sorted), x)

\* files.sort(key=lambda f: f.score), applied to fs with acc already sorted
RECURSIVE SortByScore(_, _)
SortByScore(fs, acc) ==
  IF fs = <<>> THEN acc ELSE SortByScore(Tail(fs), InsertByScore(acc, fs[1]))

FrItem == fr_tree[fr_i]

\* "if item.get("type") != "blob": continue"
FrSkipNonBlob ==
  /\ fr_pc = "scan" /\ fr_i <= Len(fr_tree)
  /\ FrItem.type # "blob"
  /\ fr_i' = fr_i + 1
  /\ UNCHANGED <<fr_tree, fr_pc, fr_files>>
  /\ UNCHANGED <<cacheVars, reqVars, ctxVars, dlVars>>

\* "if is_excluded(path, size): continue"
FrSkipExcluded ==
  /\ fr_pc = "scan" /\ fr_i <= Len(fr_tree)
  /\ FrItem.type = "blob"
  /\ is_excluded(FrItem.path, FrItem.size)
  /\ fr_i' = fr_i + 1
  /\ UNCHANGED <<fr_tree, fr_pc, fr_files>>
  /\ UNCHANGED <<cacheVars, reqVars, ctxVars, dlVars>>

\* files.append(RepoFile(path=path, size=size, score=score_file(path)))
FrAppend ==
  /\ fr_pc = "scan" /\ fr_i <= Len(fr_tree)
  /\ FrItem.type = "blob"
  /\ ~is_excluded(FrItem.path, FrItem.size)
  /\ fr_files' = Append(fr_files, [path |-> FrItem.path, size |-> FrItem.size,
                                   score |-> score_file(FrItem.path)])
  /\ fr_i' = fr_i + 1
  /\ UNCHANGED <<fr_tree, fr_pc>>
  /\ UNCHANGED <<cacheVars, reqVars, ctxVars, dlVars>>

\* the tree is exhausted: files is sorted and returned
FrSortReturn ==
  /\ fr_pc = "scan" /\ fr_i > Len(fr_tree)
  /\ fr_files' = SortByScore(fr_files, <<>>)
  /\ fr_pc' = "done"
  /\ UNCHANGED <<fr_tree, fr_i>>
  /\ UNCHANGED <<cacheVars, reqVars, ctxVars, dlVars>>

\* fetch_repo_files is not running
FrIdle ==
  /\ fr_tree = <<>>
  /\ fr_pc = "idle"
  /\ fr_i = 0
  /\ fr_files = <<>>

\* inputs of fetch_repo_files: tree listings of up to MaxTree entries with
\* distinct paths (a Git tree lists a path once), and two longer listings
MaxTree == 2
MaxDepth == 10

\* a directory prefix of depth d
RECURSIVE Deep(_)
Deep(d) == IF d = 0 THEN "" ELSE "a/" \o Deep(d - 1)

FrPaths ==
  {"README.md", "readme", "docs/README.md", "README.md.bak",
   "package.json", Deep(MaxDepth) \o "Makefile",
   "src/index.js", "a/b/tests/main.py", Deep(MaxDepth) \o "main.py",
   "utils.py", "src/app.js", "a/b/utils.py",
   "tests/test_utils.py", "src/tests/test_utils.py", "a/b/app.spec.ts",
   "node_modules/x.js", "image.png", "IMAGE.PNG", "package-lock.json",
   "app.min.js", "APP.MIN.CSS"}

FrSizes == {500001, MAX_FILE_SIZE, MAX_FILE_SIZE + 1}

FrEntries ==
  [path : FrPaths, type : {"blob"}, size : {10}]
    \cup [path : {"src/app.js"}, type : {"blob"}, size : FrSizes]
    \cup [path : {"src"}, type : {"tree"}, size : {0}]
    \cup [path : {"vendor/lib"}, type : {"commit"}, size : {0}]

Blob(path) == [path |-> path, type |-> "blob", size |-> 10]

FrLongTrees ==
  {<<Blob("src/index.js"), Blob("image.png"), Blob("node_modules/x.js"),
     Blob("package.json"), Blob("README.md")>>,
   <<Blob("utils.py"), Blob("a/b/utils.py"), Blob("tests/test_utils.py"),
     Blob("node_modules/x.js"), Blob("README.md"), Blob("README.md.bak"), Blob("src/app.js")>>}

FrTrees ==
  {t \in SeqsUpTo(FrEntries, MaxTree) :
     \A i, j \in 1..Len(t) : i < j => t[i].path # t[j].path}
    \cup FrLongTrees

(***************************************************************************)
(* SummarizerService.summarize, steps 2 and 3: the list download_files     *)
(* returns is handed to build_context.  The model of download_files keeps  *)
(* no paths; the files of one call are given paths of one length.          *)
(***************************************************************************)
\* build_context(files, budget, per_file_max) is called on the result of
\* download_files
CallBuildContext(budget, per_file_max) ==
  /\ dl_pc = "done"
  /\ ctx_pc = "idle"
  /\ \E pl \in CtxPaths :
       ctx_files' = [p \in 1..Len(dl_result) |->
                       [path |-> pl, content |-> dl_result[p].content]]
  /\ ctx_budget' = budget
  /\ ctx_pfm' = per_file_max
  /\ ctx_pc' = "loop"
  /\ ctx_i' = 1
  /\ ctx_used' = 0
  /\ ctx_sections' = <<>>
  /\ UNCHANGED <<cacheVars, reqVars, dlVars, frVars>>

\* the content budgets of summarize
AsmBudgets == {40, 110, 300}

\* Faulty variant: build_context is given four times the budget of download_files.
BuildContextCallLargerBudget == CallBuildContext(4 * dl_budget, dl_pfm)

\* "context = build_context(files, budget, per_file_max)"
BuildContextCall == CallBuildContext(dl_budget, dl_pfm)

(***************************************************************************)
(* Specifications                                                          *)
(***************************************************************************)
\* no request has arrived, the cache is empty
PipelineIdle ==
  /\ cache = EmptyCache
  /\ cache_order = <<>>
  /\ pc = [r \in Requests |-> "idle"]
  /\ key = [r \in Requests |-> None]
  /\ ret = [r \in Requests |-> NoReturn]
  /\ hit = [r \in Requests |-> FALSE]
  /\ stages = [r \in Requests |-> <<>>]
  /\ storeLog = <<>>

Init ==
  /\ PipelineIdle
  /\ cache_max_size \in 1..MaxCap
  /\ CtxIdle
  /\ DlIdle
  /\ FrIdle

Next ==
  \E r \in Requests :
    \/ \E k \in Keys : CacheCheck(r, k)
    \/ TreeFetchOk(r)
    \/ \E st \in TreeFailures : TreeFetchFail(r, st)
    \/ DownloadReturn(r)
    \/ \E v \in Vals : SummarizeOk(r, v)
    \/ \E kind \in LLMFailures : SummarizeFail(r, kind)

Spec == Init /\ [][Next]_vars

\* build_context is called with any list of files, budget and per-file cap
InitContext ==
  /\ PipelineIdle
  /\ cache_max_size = 1
  /\ ctx_files \in SeqsUpTo(CtxFileChoices, MaxCtxFiles)
  /\ ctx_budget \in CtxBudgets
  /\ ctx_pfm \in CtxPerFileMax
  /\ ctx_pc = "loop"
  /\ ctx_i = 1
  /\ ctx_used = 0
  /\ ctx_sections = <<>>
  /\ DlIdle
  /\ FrIdle

NextContext == CtxSkip \/ CtxFull \/ CtxPartial \/ CtxStop \/ CtxEnd

SpecContext == InitContext /\ [][NextContext]_vars

\* download_files is called with a sorted candidate list against any remote
InitDownload ==
  /\ PipelineIdle
  /\ cache_max_size = 1
  /\ CtxIdle
  /\ dl_n \in DlSizes
  /\ dl_budget \in DlBudgets
  /\ dl_pfm \in DlPerFileMax
  /\ dl_remote \in DlRemotes(dl_n)
  /\ dl_pc = "loop"
  /\ dl_i = 0
  /\ dl_contents = <<>>
  /\ dl_z = 0
  /\ dl_used = 0
  /\ dl_result = <<>>
  /\ dl_batches = <<>>
  /\ dl_fetches = [f \in 1..dl_n |-> 0]
  /\ dl_reordered = FALSE
  /\ FrIdle

NextDownload ==
  \/ DlLoopEnd
  \/ DlBudgetBreak
  \/ DlStartBatch
  \/ \E j \in 1..BatchSize : DlFetchComplete(j)
  \/ DlGatherReturn
  \/ DlZipSkip
  \/ DlZipAppend
  \/ DlZipEnd

SpecDownload == InitDownload /\ [][NextDownload]_vars

\* summarize, steps 2 and 3: download_files, then build_context on what it
\* returned with the same budget and per-file cap.  Every returned file has
\* content, so the "content is None" branch of build_context is not taken.
InitAssemble ==
  /\ PipelineIdle
  /\ cache_max_size = 1
  /\ CtxIdle
  /\ dl_n \in DlSizes
  /\ dl_budget \in AsmBudgets
  /\ dl_pfm \in DlPerFileMax
  /\ dl_remote \in DlRemotes(dl_n)
  /\ dl_pc = "loop"
  /\ dl_i = 0
  /\ dl_contents = <<>>
  /\ dl_z = 0
  /\ dl_used = 0
  /\ dl_result = <<>>
  /\ dl_batches = <<>>
  /\ dl_fetches = [f \in 1..dl_n |-> 0]
  /\ dl_reordered = FALSE
  /\ FrIdle

NextAssemble ==
  \/ NextDownload
  \/ BuildContextCall
  \/ CtxFull \/ CtxPartial \/ CtxStop \/ CtxEnd

SpecAssemble == InitAssemble /\ [][NextAssemble]_vars

\* fetch_repo_files has received a 200 response with any tree listing
InitFilter ==
  /\ PipelineIdle
  /\ cache_max_size = 1
  /\ CtxIdle
  /\ DlIdle
  /\ fr_tree \in FrTrees
  /\ fr_pc = "scan"
  /\ fr_i = 1
  /\ fr_files = <<>>

NextFilter == FrSkipNonBlob \/ FrSkipExcluded \/ FrAppend \/ FrSortReturn

SpecFilter == InitFilter /\ [][NextFilter]_vars

(***************************************************************************)
(* Properties of the cache and the pipeline (checked under Spec)           *)
(***************************************************************************)
\* the step is request r's call of _cache_set that returned normally
StoreStep(r) == pc[r] = "Summarize" /\ pc'[r] = "done"

\* position in storeLog of the insert that put the present entry for k in place
InsertedAt(k) ==
  LET S == {i \in 1..Len(storeLog) : storeLog[i].key = k /\ ~storeLog[i].present}
  IN  CHOOSE i \in S : \A j \in S : j <= i

Occurrences(o, k) == Cardinality({i \in 1..Len(o) : o[i] = k})

IsPrefix(a, b) == Len(a) <= Len(b) /\ SubSeq(b, 1, Len(a)) = a

AllStages == <<"CacheCheck", "TreeFetch", "Download", "Assemble", "Summarize", "CacheStore">>

\* C2: in every reachable state the cache holds at most cache_max_size entries.
C2_CacheBounded == Cardinality(DOMAIN cache) <= cache_max_size

\* three inserts of three different keys into a cache of capacity two
C2_Witness ==
  /\ Len(storeLog) >= 3
  /\ \A i \in 1..Len(storeLog) : ~storeLog[i].present
  /\ cache_max_size >= 2
  /\ Cardinality(DOMAIN cache) = cache_max_size

\* C3: a call of _cache_set with a key that is already in the cache leaves the
\* mapping (every key and value) and the eviction order unchanged.
C3_PresentKeyNoChange ==
  [][\A r \in Requests :
       (StoreStep(r) /\ key[r] \in DOMAIN cache)
         => (cache' = cache /\ cache_order' = cache_order)]_vars

\* _cache_set was called with a present key and another value while the cache was full
C3_Witness ==
  \E i \in 1..Len(storeLog) :
    /\ storeLog[i].present
    /\ storeLog[i].full
    /\ storeLog[i].key \in DOMAIN cache
    /\ storeLog[i].val # cache[storeLog[i].key]

C6_FailureAborts ==
  [][/\ \A r \in Requests :
          /\ IsPrefix(stages'[r], AllStages)
          /\ (pc'[r] = "error" /\ pc[r] # "error")
               => /\ pc[r] \in {"TreeFetch", "Summarize"}
                  /\ stages'[r] = stages[r]
                  /\ stages'[r][Len(stages'[r])] = pc[r]
                  /\ ret'[r].status >= 400
                  /\ ret'[r].val = None
                  /\ cache' = cache
                  /\ cache_order' = cache_order
          /\ (pc[r] = "error")
               => (pc'[r] = "error" /\ stages'[r] = stages[r] /\ ret'[r] = ret[r])
     /\ (cache' # cache \/ cache_order' # cache_order)
          => \E r \in Requests : StoreStep(r)]_vars

\* one request failed in the tree fetch and one in the LLM call while the
\* cache held an entry
C6_Witness ==
  /\ DOMAIN cache # {}
  /\ \E r1, r2 \in Requests :
       /\ pc[r1] = "error" /\ stages[r1] = <<"CacheCheck", "TreeFetch">>
       /\ pc[r2] = "error"
       /\ stages[r2] = <<"CacheCheck", "TreeFetch", "Download", "Assemble", "Summarize">>

\* the scenario of C7: r1 and r2 asked for the same key, both missed the cache,
\* both returned, r1 called _cache_set first (entry i) and found the key
\* absent, r2 called it later (entry j), and the key was not evicted since
RaceFor(r1, r2, i, j) ==
  /\ r1 # r2
  /\ key[r1] = key[r2]
  /\ ~hit[r1] /\ ~hit[r2]
  /\ pc[r1] = "done" /\ pc[r2] = "done"
  /\ i < j
  /\ storeLog[i].req = r1 /\ storeLog[j].req = r2
  /\ ~storeLog[i].present
  /\ \A m \in (i + 1)..Len(storeLog) : storeLog[m].evicted # key[r1]

\* C7: two requests for the same uncached key that both miss the cache both
\* run all six stages; the cache then holds one entry for the key, with the
\* value of the request that stored first, and the later call of _cache_set
\* found the key present and changed neither the mapping nor the order.
C7_SecondInsertDropped ==
  \A r1, r2 \in Requests : \A i, j \in 1..Len(storeLog) :
    RaceFor(r1, r2, i, j)
      => /\ stages[r1] = AllStages
         /\ stages[r2] = AllStages
         /\ key[r1] \in DOMAIN cache
         /\ cache[key[r1]] = storeLog[i].val
         /\ Occurrences(cache_order, key[r1]) = 1
         /\ storeLog[j].present
         /\ ~storeLog[j].changed

\* the race happened with two different responses
C7_Witness ==
  \E r1, r2 \in Requests : \E i, j \in 1..Len(storeLog) :
    /\ RaceFor(r1, r2, i, j)
    /\ storeLog[i].val # storeLog[j].val
    /\ ret[r2].val = storeLog[j].val

(***************************************************************************)
(* Properties of build_context (checked under SpecContext)                 *)
(***************************************************************************)
RECURSIVE SumLen(_)
SumLen(secs) == IF secs = <<>> THEN 0 ELSE secs[1].len + SumLen(Tail(secs))

\* C1: the lengths of the sections emitted so far never sum to more than the
\* budget (so a partial section is no longer than the budget that remained).
C1_SectionsWithinBudget == SumLen(ctx_sections) <= ctx_budget

\* the input positions of the files that have content
WithContent == {i \in 1..Len(ctx_files) : ctx_files[i].content # NoContent}

\* the input positions of the files that have a section
WithSection == {ctx_sections[p].file : p \in 1..Len(ctx_sections)}

\* the sum of the full section lengths of the files from position i on
RECURSIVE FullLenSum(_)
FullLenSum(i) ==
  IF i > Len(ctx_files) THEN 0
  ELSE (IF i \in WithContent THEN SectionLen(ctx_files[i], ctx_pfm) ELSE 0)
       + FullLenSum(i + 1)

\* C12: when the full sections of the input files add up to exactly the
\* budget, the output holds the full section of every file that has content
\* and no partial section, and it is exactly as long as the budget.
C12_ExactFitAllFull ==
  (ctx_pc = "done" /\ FullLenSum(1) = ctx_budget)
    => /\ WithSection = WithContent
       /\ Len(ctx_sections) = Cardinality(WithContent)
       /\ \A p \in 1..Len(ctx_sections) :
            /\ ctx_sections[p].kind = "full"
            /\ ctx_sections[p].len = SectionLen(ctx_files[ctx_sections[p].file], ctx_pfm)
       /\ SumLen(ctx_sections) = ctx_budget

\* two files or more whose full sections add up to a positive budget have
\* been assembled, the last one filling the budget exactly
C12_Witness ==
  /\ ctx_pc = "done"
  /\ ctx_budget > 0
  /\ FullLenSum(1) = ctx_budget
  /\ Cardinality(WithContent) >= 2
  /\ Len(ctx_sections) >= 2
  /\ ctx_used = ctx_budget
  /\ ctx_sections[Len(ctx_sections)].kind = "full"

\* the budget that remains before the p-th section
RemainingBefore(p) == ctx_budget - SumLen(SubSeq(ctx_sections, 1, p - 1))

Partials == {p \in 1..Len(ctx_sections) : ctx_sections[p].kind = "partial"}

\* C13: a partial section is emitted exactly when the loop reaches a file
\* whose full section exceeds the remaining budget while remaining is more
\* than the header length plus 50.  It consists of the header, the fence,
\* the first (remaining - header length - 20) characters of the file's
\* (capped) content and the truncation marker with the closing fence; it is
\* the last section, and an output never holds two partial sections.
C13_OnePartialLast ==
  /\ Cardinality(Partials) <= 1
  /\ \A p \in Partials :
       LET f == ctx_files[ctx_sections[p].file]
           remaining == RemainingBefore(p)
       IN  /\ p = Len(ctx_sections)
           /\ ctx_pc = "done"
           /\ ctx_sections[p].file = ctx_i
           /\ HeaderLen(f) + FenceOpenLen + CappedLen(f, ctx_pfm) + FenceCloseLen > remaining
           /\ remaining > HeaderLen(f) + MinPartial
           /\ ctx_sections[p].body = remaining - HeaderLen(f) - PartialReserve
           /\ ctx_sections[p].body < CappedLen(f, ctx_pfm)
           /\ ctx_sections[p].len =
                HeaderLen(f) + FenceOpenLen + ctx_sections[p].body + PartialTailLen
  /\ (/\ ctx_pc = "done"
      /\ ctx_i <= Len(ctx_files)
      /\ ctx_budget - ctx_used > HeaderLen(ctx_files[ctx_i]) + MinPartial)
       => /\ Partials = {Len(ctx_sections)}
          /\ ctx_sections[Len(ctx_sections)].file = ctx_i

\* a full section is followed by the partial section of the next file, and a
\* further file with content follows in the input
C13_Witness ==
  /\ ctx_pc = "done"
  /\ Len(ctx_sections) >= 2
  /\ ctx_sections[1].kind = "full"
  /\ Partials = {Len(ctx_sections)}
  /\ ctx_sections[Len(ctx_sections)].body > 0
  /\ \E i \in WithContent : i > ctx_i

\* the first file, in input order, whose full section does not fit after
\* the full sections of the files with content before it (0: every one fits)
RECURSIVE FirstMisfit(_, _)
FirstMisfit(i, used) ==
  IF i > Len(ctx_files) THEN 0
  ELSE IF i \notin WithContent THEN FirstMisfit(i + 1, used)
  ELSE IF used + SectionLen(ctx_files[i], ctx_pfm) > ctx_budget THEN i
  ELSE FirstMisfit(i + 1, used + SectionLen(ctx_files[i], ctx_pfm))

\* the full section lengths of the files with content before position i
RECURSIVE FullLenBefore(_)
FullLenBefore(i) ==
  IF i <= 1 THEN 0
  ELSE FullLenBefore(i - 1)
       + (IF (i - 1) \in WithContent THEN SectionLen(ctx_files[i - 1], ctx_pfm) ELSE 0)

\* C14: the sections follow the input order and their files are a prefix of
\* the files with content.  On return every file with content before the
\* first misfit has its full section, no file after the first misfit has a
\* section (whether or not it would fit), and the first misfit itself has
\* none when remaining <= header length + 50.
C14_GreedyPrefix ==
  /\ \A p, q \in 1..Len(ctx_sections) :
       p < q => ctx_sections[p].file < ctx_sections[q].file
  /\ \A i \in WithSection : \A j \in WithContent : j < i => j \in WithSection
  /\ WithSection \subseteq WithContent
  /\ ctx_pc = "done"
       => LET m == FirstMisfit(1, 0)
          IN  IF m = 0
              THEN WithSection = WithContent
              ELSE /\ \A j \in WithContent : j < m => j \in WithSection
                   /\ \A j \in WithSection : j <= m
                   /\ \A p \in 1..Len(ctx_sections) :
                        ctx_sections[p].file < m => ctx_sections[p].kind = "full"
                   /\ (ctx_budget - FullLenBefore(m)
                         <= HeaderLen(ctx_files[m]) + MinPartial)
                        => m \notin WithSection

\* the loop stopped at a file for which nothing was emitted, after a full
\* section, and a later file whose full section would fit in the remaining
\* budget has no section
C14_Witness ==
  /\ ctx_pc = "done"
  /\ ctx_sections # <<>>
  /\ FirstMisfit(1, 0) = ctx_i
  /\ ctx_i \in WithContent
  /\ ctx_i \notin WithSection
  /\ \E j \in WithContent :
       /\ j > ctx_i
       /\ ctx_used + SectionLen(ctx_files[j], ctx_pfm) <= ctx_budget
       /\ j \notin WithSection

(***************************************************************************)
(* Properties of download_files (checked under SpecDownload)               *)
(***************************************************************************)
Fetched(f) == dl_remote[f] \notin {NoneResult, ExcResult}

\* min(length, perFileMax), written out
Capped(len) == IF len <= dl_pfm THEN len ELSE dl_pfm

RECURSIVE CappedSum(_)
CappedSum(res) == IF res = <<>> THEN 0 ELSE Capped(res[1].content) + CappedSum(Tail(res))

\* the capped lengths of the successfully fetched files before f in the input
RECURSIVE CappedBefore(_)
CappedBefore(f) ==
  IF f <= 1 THEN 0
  ELSE CappedBefore(f - 1) + (IF Fetched(f - 1) THEN Capped(dl_remote[f - 1]) ELSE 0)

InResult(f) == \E p \in 1..Len(dl_result) : dl_result[p].file = f

\* the files of the batches started so far
StartedFiles ==
  {f \in 1..dl_n : \E b \in 1..Len(dl_batches) :
     dl_batches[b].start < f /\ f <= dl_batches[b].start + BatchSize}

\* C8 as stated: no batch starts once used >= budget, and on return every
\* successfully fetched file of a started batch is in the result with its
\* content.
C8_StartedBatchKeptWhole ==
  /\ \A b \in 1..Len(dl_batches) : dl_batches[b].used < dl_budget
  /\ dl_pc = "done"
       => \A f \in StartedFiles :
            Fetched(f) => \E p \in 1..Len(dl_result) :
                            dl_result[p] = [file |-> f, content |-> dl_remote[f]]

\* C8 as amended: no batch starts once used >= budget and every fetch of a
\* started batch is awaited, but on return the result holds exactly the
\* successfully fetched files before which less than the budget was counted:
\* it ends with the file at which used reached the budget, and the fetched
\* files after that one in the same batch are left out.
C8_ResultCutAtBudget ==
  /\ \A b \in 1..Len(dl_batches) : dl_batches[b].used < dl_budget
  /\ dl_pc = "zip" => \A j \in DOMAIN dl_contents : dl_contents[j] # Pending
  /\ dl_pc = "done"
       => /\ \A f \in 1..dl_n :
               InResult(f) <=> (Fetched(f) /\ CappedBefore(f) < dl_budget)
          /\ \A p \in 1..Len(dl_result) :
               dl_result[p].content = dl_remote[dl_result[p].file]
          /\ \A f \in StartedFiles : dl_fetches[f] = 1

\* the budget was reached inside a batch before a file that was fetched
\* successfully, and that file is not in the returned list
C8_Witness ==
  /\ dl_pc = "done"
  /\ dl_result # <<>>
  /\ \E f \in StartedFiles :
       /\ Fetched(f)
       /\ ~InResult(f)
       /\ dl_fetches[f] = 1
       /\ f > dl_result[Len(dl_result)].file

\* C9: at every point used is the sum of min(length, perFileMax) over the
\* entries appended to the result so far, every entry being a fetched text;
\* skipped (failed) fetches add nothing.
C9_UsedIsCappedSum ==
  /\ dl_used = CappedSum(dl_result)
  /\ \A p \in 1..Len(dl_result) : dl_result[p].content >= 0

\* an oversized text was counted at the cap, after a failed fetch was skipped
C9_Witness ==
  /\ dl_pc = "zip"
  /\ \E p \in 1..Len(dl_result) :
       /\ dl_result[p].content > dl_pfm
       /\ \E f \in 1..(dl_result[p].file - 1) : ~Fetched(f)
  /\ dl_used > 0

\* what download_files returns when the files are fetched one after the
\* other in input order
RECURSIVE InOrderResult(_, _, _)
InOrderResult(f, used, acc) ==
  IF f > dl_n \/ used >= dl_budget THEN acc
  ELSE IF Fetched(f)
       THEN InOrderResult(f + 1, used + Capped(dl_remote[f]),
                          Append(acc, [file |-> f, content |-> dl_remote[f]]))
       ELSE InOrderResult(f + 1, used, acc)

\* C10: whatever the order in which the fetches of a batch complete, the
\* result lists files in strictly increasing input position, each with the
\* text fetched for that very file, and the returned list is the one a
\* fetch in input order produces.
C10_CompletionOrderIrrelevant ==
  /\ \A p, q \in 1..Len(dl_result) :
       p < q => dl_result[p].file < dl_result[q].file
  /\ \A p \in 1..Len(dl_result) :
       /\ Fetched(dl_result[p].file)
       /\ dl_result[p].content = dl_remote[dl_result[p].file]
  /\ dl_pc = "done" => dl_result = InOrderResult(1, 0, <<>>)

\* fetches completed out of input order, one failed, and texts of different
\* lengths were returned
C10_Witness ==
  /\ dl_pc = "done"
  /\ dl_reordered
  /\ \E f \in StartedFiles : ~Fetched(f)
  /\ \E p, q \in 1..Len(dl_result) : dl_result[p].content # dl_result[q].content

\* the batches the loop visits: they start at the multiples of the batch size
BatchStarts == {s \in 0..(dl_n - 1) : s % BatchSize = 0}

\* C11: a failed fetch (exception, non-200 status or decode failure) costs
\* only its own file.  No file is fetched more than once; no failed file is
\* in the result; gather returns only when every fetch of the batch has
\* completed; on return every fetched file before which less than the budget
\* was counted is in the result, whatever failed around it; every batch
\* before which less than the budget was counted has been started; and the
\* call always runs on to its return.
C11_FailureIsolated ==
  /\ \A f \in 1..dl_n : dl_fetches[f] <= 1
  /\ \A p \in 1..Len(dl_result) : dl_remote[dl_result[p].file] >= 0
  /\ dl_pc = "zip" => \A j \in DOMAIN dl_contents : dl_contents[j] # Pending
  /\ dl_pc \in {"loop", "gather", "zip", "done"}
  /\ dl_pc # "done" => ENABLED NextDownload
  /\ dl_pc = "done"
       => /\ \A f \in 1..dl_n :
               (dl_remote[f] >= 0 /\ CappedBefore(f) < dl_budget) => InResult(f)
          /\ \A s \in BatchStarts :
               CappedBefore(s + 1) < dl_budget
                 => \E b \in 1..Len(dl_batches) : dl_batches[b].start = s

\* a fetch raised and another returned None in the first batch; the files
\* after them in that batch are in the result, a second batch ran and its
\* file is in the result
C11_Witness ==
  /\ dl_pc = "done"
  /\ dl_n > BatchSize
  /\ dl_remote[1] = ExcResult /\ dl_remote[2] = NoneResult
  /\ dl_fetches[1] = 1 /\ dl_fetches[2] = 1
  /\ ~InResult(1) /\ ~InResult(2)
  /\ \A f \in 3..BatchSize : InResult(f)
  /\ Len(dl_batches) = 2
  /\ InResult(BatchSize + 1)

(***************************************************************************)
(* Properties of fetch_repo_files, is_excluded and score_file (checked     *)
(* under SpecFilter)                                                       *)
(***************************************************************************)
\* the input paths by what they are, as a reader of the paths sorts them
ReadmePaths == {"README.md", "readme", "docs/README.md"}
ManifestPaths == {"package.json", Deep(MaxDepth) \o "Makefile"}
EntryPaths == {"src/index.js", "a/b/tests/main.py", Deep(MaxDepth) \o "main.py"}
TestPaths ==
  {"a/b/tests/main.py", "tests/test_utils.py", "src/tests/test_utils.py",
   "a/b/app.spec.ts"}
NamedTierPaths == ReadmePaths \cup ManifestPaths \cup EntryPaths

\* the number of "/" in a path, counted by its segments
PathDepth(path) == Len(Split(path, "/")) - 1

\* the tree entry at position i has been looked at by the loop
Scanned(i) == i \in 1..Len(fr_tree) /\ (i < fr_i \/ fr_pc = "done")

\* the tree entry at position i is in files
Kept(i) == \E p \in 1..Len(fr_files) : fr_files[p].path = fr_tree[i].path

\* C15: a file of the root-README, manifest, deeper-README or entry-point
\* tier, at whatever depth, has a strictly smaller score than a file of none
\* of these tiers.
C15_NamedTiersOutrank ==
  \A p, q \in 1..Len(fr_files) :
    (fr_files[p].path \in NamedTierPaths /\ fr_files[q].path \notin NamedTierPaths)
      => fr_files[p].score < fr_files[q].score

\* the score the ordered cascade of tiers gives, first match first
CascadeScore(path) ==
  LET depth == PathDepth(path)
  IN  IF depth = 0 /\ path \in ReadmePaths THEN 0
      ELSE IF path \in ManifestPaths THEN 10 + depth
      ELSE IF path \in ReadmePaths THEN 20 + depth
      ELSE IF path \in EntryPaths THEN 30 + depth
      ELSE IF depth <= 1 THEN 40
      ELSE IF path \in TestPaths THEN 80 + depth
      ELSE 60 + depth

\* C16: the score of every file is the value of the first matching tier of
\* the cascade: 0 root README, 10+depth manifest, 20+depth deeper README,
\* 30+depth entry point, 40 any other file at depth 0 or 1, 80+depth test
\* path, 60+depth otherwise; a test path at depth 2 or more that is in no
\* named tier scores 80+depth.
C16_FirstMatchingTier ==
  \A p \in 1..Len(fr_files) :
    LET path == fr_files[p].path
    IN  /\ fr_files[p].score = CascadeScore(path)
        /\ (path \in TestPaths \ NamedTierPaths /\ PathDepth(path) >= 2)
             => fr_files[p].score = 80 + PathDepth(path)

\* a test path at depth 2 and a test path at depth 1 have both been scored,
\* the first in the test tier and the second in the near-root tier
C16_Witness ==
  /\ fr_pc = "done"
  /\ \E p, q \in 1..Len(fr_files) :
       /\ fr_files[p].path = "src/tests/test_utils.py"
       /\ fr_files[p].score = 82
       /\ fr_files[q].path = "tests/test_utils.py"
       /\ fr_files[q].score = 40

\* C17 as stated: a blob entry of more than 500,000 bytes is never kept.
C17_Over500000Excluded ==
  \A i \in 1..Len(fr_tree) :
    (Scanned(i) /\ fr_tree[i].type = "blob" /\ fr_tree[i].size > 500000) => ~Kept(i)

\* C17 as amended: a blob entry of more than 512,000 bytes is never kept,
\* whatever its path.
C17_OverMaxFileSizeExcluded ==
  \A i \in 1..Len(fr_tree) :
    (Scanned(i) /\ fr_tree[i].type = "blob" /\ fr_tree[i].size > 512000) => ~Kept(i)

\* an entry that nothing but its size excludes has been dropped at 512,001
\* bytes
C17_Witness ==
  \E i \in 1..Len(fr_tree) :
    /\ Scanned(i)
    /\ fr_tree[i].type = "blob"
    /\ fr_tree[i].size = 512001
    /\ ~is_excluded(fr_tree[i].path, 0)
    /\ ~Kept(i)

\* the position in the tree listing of the entry with this path
TreePos(path) == CHOOSE i \in 1..Len(fr_tree) : fr_tree[i].path = path

\* a path has the directory segment dir
UnderDir(path, dir) == Contains("/" \o path, "/" \o dir \o "/")

\* a string ends in suffix, letter case ignored
EndsWithCI(str, suffix) ==
  /\ Len(str) >= Len(suffix)
  /\ Lower(SubSeq(str, Len(str) - Len(suffix) + 1, Len(str))) = Lower(suffix)

\* C18: what fetch_repo_files returns holds exactly the blob entries of the
\* tree that is_excluded does not exclude, each once and with its score; no
\* entry under node_modules and no .png entry is among them; scores ascend,
\* and entries of equal score are in the order of the tree listing.
C18_FilteredStableSorted ==
  /\ fr_pc = "done"
       => /\ \A i \in 1..Len(fr_tree) :
               Kept(i) <=> (/\ fr_tree[i].type = "blob"
                            /\ ~is_excluded(fr_tree[i].path, fr_tree[i].size))
          /\ \A p \in 1..Len(fr_files) :
               /\ \E i \in 1..Len(fr_tree) :
                    /\ fr_tree[i].path = fr_files[p].path
                    /\ fr_tree[i].size = fr_files[p].size
               /\ fr_files[p].score = score_file(fr_files[p].path)
               /\ ~UnderDir(fr_files[p].path, "node_modules")
               /\ ~EndsWithCI(fr_files[p].path, ".png")
          /\ \A p, q \in 1..Len(fr_files) :
               p < q => /\ fr_files[p].path # fr_files[q].path
                        /\ fr_files[p].score <= fr_files[q].score
                        /\ fr_files[p].score = fr_files[q].score
                             => TreePos(fr_files[p].path) < TreePos(fr_files[q].path)
  /\ (/\ fr_pc = "done"
      /\ fr_tree = <<Blob("src/index.js"), Blob("image.png"), Blob("node_modules/x.js"),
                     Blob("package.json"), Blob("README.md")>>)
       => [p \in 1..Len(fr_files) |-> fr_files[p].path]
            = <<"README.md", "package.json", "src/index.js">>

\* a listing with an excluded entry has been filtered and sorted: the sort
\* moved an entry forward, and three entries of equal score are in the
\* result in the order of the listing
C18_Witness ==
  /\ fr_pc = "done"
  /\ \E i \in 1..Len(fr_tree) : fr_tree[i].type = "blob" /\ ~Kept(i)
  /\ \E p, q \in 1..Len(fr_files) :
       p < q /\ TreePos(fr_files[p].path) > TreePos(fr_files[q].path)
  /\ \E p, q, r \in 1..Len(fr_files) :
       /\ p < q /\ q < r
       /\ fr_files[p].score = fr_files[q].score
       /\ fr_files[q].score = fr_files[r].score

\* the last segment of a path
FileName(path) == LET parts == Split(path, "/") IN parts[Len(parts)]

\* C20: a blob entry whose file name ends, letter case ignored, in an
\* extension of the exclusion set (.min.js and .min.css among them) is
\* never kept.
C20_ExcludedExtensionsDropped ==
  \A i \in 1..Len(fr_tree) :
    (/\ Scanned(i)
     /\ fr_tree[i].type = "blob"
     /\ \E ext \in EXCLUDED_EXTENSIONS : EndsWithCI(FileName(fr_tree[i].path), ext))
      => ~Kept(i)

(***************************************************************************)
(* Properties of the error mapping (checked under Spec)                    *)
(***************************************************************************)
ErrorResponse(status, detail) == [status |-> status, val |-> None, detail |-> detail]

\* C19: a request that has failed carries the one error class of its
\* failure.  It failed in the tree fetch or in the LLM call, never in the
\* download stage.  In the tree fetch, a 404 answer gives not-found (404), a
\* 403 answer rate-limited (429), another non-200 answer upstream error
\* (502); in the LLM call, a non-200 answer or output that is not JSON gives
\* upstream error (502); any other exception gives internal error (500)
\* with the fixed detail that says nothing of the exception.
C19_ErrorClasses ==
  \A r \in Requests :
    pc[r] = "error"
      => LET last == stages[r][Len(stages[r])]
         IN  /\ last \in {"TreeFetch", "Summarize"}
             /\ last = "TreeFetch"
                  => ret[r] \in
                       {ErrorResponse(404, "Repository not found or is private"),
                        ErrorResponse(429, "GitHub API rate limit exceeded"),
                        ErrorResponse(502, "GitHub API error"),
                        ErrorResponse(500, "Internal server error")}
             /\ last = "Summarize"
                  => ret[r] \in
                       {ErrorResponse(502,
                          "LLM service error: LLM API returned a non-200 status"),
                        ErrorResponse(502, "LLM service error: LLM returned invalid JSON"),
                        ErrorResponse(500, "Internal server error")}

\* three requests have failed in three classes: not-found at the tree fetch,
\* upstream error at the LLM call after the download stage, and internal
\* error
C19_Witness ==
  \E r1, r2, r3 \in Requests :
    /\ pc[r1] = "error" /\ pc[r2] = "error" /\ pc[r3] = "error"
    /\ ret[r1].status = 404
    /\ stages[r1][Len(stages[r1])] = "TreeFetch"
    /\ ret[r2].status = 502
    /\ stages[r2][Len(stages[r2])] = "Summarize"
    /\ ret[r3].status = 500
    /\ ret[r3].detail = "Internal server error"

(***************************************************************************)
(* Further properties of the cache (checked under Spec)                    *)
(***************************************************************************)
\* C21: with a capacity of 1 or more, after any calls of _cache_set the list
\* _cache_order holds no key twice and holds exactly the keys of _cache, so
\* the two have the same length; a full cache therefore has a first key in
\* the list and that key is stored, and no call has failed on the eviction.
C21_OrderMatchesCache ==
  /\ cache_max_size >= 1
  /\ \A i, j \in 1..Len(cache_order) : i # j => cache_order[i] # cache_order[j]
  /\ {cache_order[i] : i \in 1..Len(cache_order)} = DOMAIN cache
  /\ Len(cache_order) = Cardinality(DOMAIN cache)
  /\ Cardinality(DOMAIN cache) >= cache_max_size
       => (cache_order # <<>> /\ Head(cache_order) \in DOMAIN cache)
  /\ \A r \in Requests :
       pc[r] = "error" => stages[r][Len(stages[r])] # "CacheStore"

\* three stores have run against a capacity of two: the third evicted the
\* first key, and the list holds the two keys that are stored, the newer
\* one last
C21_Witness ==
  /\ cache_max_size = 2
  /\ Len(storeLog) = 3
  /\ storeLog[3].evicted = storeLog[1].key
  /\ storeLog[3].evicted \notin DOMAIN cache
  /\ cache_order = <<storeLog[2].key, storeLog[3].key>>
  /\ DOMAIN cache = {storeLog[2].key, storeLog[3].key}

(***************************************************************************)
(* Further properties of download_files (checked under SpecDownload)       *)
(***************************************************************************)
\* C22: with a positive budget, what was counted for the files of the
\* result other than the last one is strictly less than the budget, at every
\* point and on return, so used stays below budget + per_file_max; when the
\* call returns with used >= budget, the last file of the result is the
\* first file at which the count reached the budget.
C22_OvershootBelowOneFile ==
  /\ dl_pc # "idle" => dl_budget > 0
  /\ dl_result # <<>>
       => CappedSum(SubSeq(dl_result, 1, Len(dl_result) - 1)) < dl_budget
  /\ dl_used < dl_budget + dl_pfm
  /\ (dl_pc = "done" /\ dl_used >= dl_budget)
       => /\ dl_result # <<>>
          /\ \A p \in 1..(Len(dl_result) - 1) :
               CappedSum(SubSeq(dl_result, 1, p)) < dl_budget
          /\ CappedBefore(dl_result[Len(dl_result)].file) < dl_budget
          /\ CappedBefore(dl_result[Len(dl_result)].file + 1) >= dl_budget

\* the call returned two files or more with used above the budget, by less
\* than a capped file, and a fetched file of the same batch was cut off
C22_Witness ==
  /\ dl_pc = "done"
  /\ Len(dl_result) >= 2
  /\ dl_used > dl_budget
  /\ dl_used < dl_budget + dl_pfm
  /\ dl_used - Capped(dl_result[Len(dl_result)].content) < dl_budget
  /\ \E f \in StartedFiles : Fetched(f) /\ f > dl_result[Len(dl_result)].file

(***************************************************************************)
(* Properties of download_files followed by build_context (checked under   *)
(* SpecAssemble)                                                           *)
(***************************************************************************)
\* the files of the context that have a full section
FullyIncluded ==
  {ctx_sections[p].file : p \in {q \in 1..Len(ctx_sections) : ctx_sections[q].kind = "full"}}

\* C23: when download_files returned with used >= budget and build_context
\* has run on its result with the same budget and per-file cap, the section
\* of every file is longer than what download_files counted for it, not
\* every downloaded file has a full section, and the last downloaded file
\* has a partial section or none.
C23_LastFileNotFull ==
  (ctx_pc = "done" /\ dl_used >= dl_budget)
    => /\ ctx_files # <<>>
       /\ \A p \in 1..Len(ctx_files) :
            /\ ctx_files[p].content = dl_result[p].content
            /\ HeaderLen(ctx_files[p]) + FenceOpenLen + CappedLen(ctx_files[p], ctx_pfm)
                 + FenceCloseLen > Capped(dl_result[p].content)
       /\ FullyIncluded # 1..Len(ctx_files)
       /\ Len(ctx_files) \notin FullyIncluded

\* download_files stopped at the budget with three files or more, and
\* build_context emitted full sections for some of them and a partial
\* section after these
C23_Witness ==
  /\ ctx_pc = "done"
  /\ dl_used >= dl_budget
  /\ Len(ctx_files) >= 3
  /\ FullyIncluded # {}
  /\ Partials # {}

====
